---- MODULE Spec2Model ----
(***************************************************************************)
(* State-machine model of MySecretNotes/app.py: the users and notes tables *)
(* of db.sqlite3, the Flask sessions of the clients, and one action per    *)
(* route handler (index, notes, login, register, verify_2fa, logout).      *)
(*                                                                         *)
(* A Flask session is a signed cookie the client holds: the server keeps   *)
(* no table of clients, and a handler sees nothing of a client but its     *)
(* session.  The variable session is therefore the bag of the sessions of  *)
(* the NClients clients, and a request is made by the client that holds    *)
(* the session d of the bag.                                               *)
(*                                                                         *)
(* Strings that the code measures, strips or matches against a regular     *)
(* expression (passwords, note bodies, note ids) are run-length encoded:   *)
(* a text is a sequence of runs [ch, n], "ch repeated n times", adjacent   *)
(* runs having different characters.  Usernames, OTP secrets and OTP codes *)
(* are only compared and tested for emptiness, and are TLA+ strings.       *)
(* An SQL INTEGER of ten digits does not fit TLC's integers: a publicID is *)
(* the sequence of its decimal digits, most significant first, without     *)
(* leading zeros.                                                          *)
(***************************************************************************)
EXTENDS Integers, Sequences, FiniteSets, Bags, TLC

VARIABLES users, notes, session, now

vars == <<users, notes, session, now>>

(***************************************************************************)
(* Bounds of the model.                                                    *)
(***************************************************************************)
NClients == 2
MaxUsers == 4
MaxNotes == 4
MaxTime  == 1


(***************************************************************************)
(* Texts.                                                                  *)
(***************************************************************************)
UpperChars == {"A", "B", "C", "D", "E", "F", "G", "H", "I", "J", "K", "L", "M",
               "N", "O", "P", "Q", "R", "S", "T", "U", "V", "W", "X", "Y", "Z"}

LowerChars == {"a", "b", "c", "d", "e", "f", "g", "h", "i", "j", "k", "l", "m",
               "n", "o", "p", "q", "r", "s", "t", "u", "v", "w", "x", "y", "z"}

AsciiDigits == {"0", "1", "2", "3", "4", "5", "6", "7", "8", "9"}

\* "U+0663" stands for ARABIC-INDIC DIGIT THREE, a decimal digit that is not ASCII.
UnicodeDigits == AsciiDigits \cup {"U+0663"}

SpecialChars == {"!", "@", "#", "$", "%", "^", "&", "*", "(", ")", ",", ".",
                 "?", "\"", ":", "{", "}", "|", "<", ">"}

Whitespace == {" ", "\t", "\n"}

DigitValue == [ch \in AsciiDigits |->
                 CASE ch = "0" -> 0 [] ch = "1" -> 1 [] ch = "2" -> 2 [] ch = "3" -> 3
                   [] ch = "4" -> 4 [] ch = "5" -> 5 [] ch = "6" -> 6 [] ch = "7" -> 7
                   [] ch = "8" -> 8 [] ch = "9" -> 9]

Rep(ch, n) == IF n = 0 THEN <<>> ELSE <<[ch |-> ch, n |-> n]>>

Concat(s, t) ==
    IF s = <<>> THEN t
    ELSE IF t = <<>> THEN s
    ELSE IF s[Len(s)].ch = t[1].ch
         THEN SubSeq(s, 1, Len(s) - 1)
                \o <<[ch |-> t[1].ch, n |-> s[Len(s)].n + t[1].n]>>
                \o Tail(t)
         ELSE s \o t

RECURSIVE Text(_)
Text(chars) ==
    IF chars = <<>> THEN <<>>
    ELSE Concat(Text(SubSeq(chars, 1, Len(chars) - 1)), Rep(chars[Len(chars)], 1))

RECURSIVE TextLen(_)
TextLen(t) == IF t = <<>> THEN 0 ELSE t[1].n + TextLen(Tail(t))

RECURSIVE Chars(_)
Chars(t) ==
    IF t = <<>> THEN <<>>
    ELSE [i \in 1..t[1].n |-> t[1].ch] \o Chars(Tail(t))

RECURSIVE lstrip(_)
lstrip(t) ==
    IF t # <<>> /\ t[1].ch \in Whitespace THEN lstrip(Tail(t)) ELSE t

RECURSIVE rstrip(_)
rstrip(t) ==
    IF t # <<>> /\ t[Len(t)].ch \in Whitespace
    THEN rstrip(SubSeq(t, 1, Len(t) - 1))
    ELSE t

strip(t) == rstrip(lstrip(t))

re_search(class, t) == \E i \in 1..Len(t) : t[i].ch \in class

(***************************************************************************)
(* Decimal integers of more than nine digits.                              *)
(***************************************************************************)
RECURSIVE Canonical(_)
Canonical(ds) ==
    IF Len(ds) > 1 /\ ds[1] = 0 THEN Canonical(Tail(ds)) ELSE ds

RECURSIVE DigitsLess(_, _)
DigitsLess(a, b) ==
    IF Len(a) # Len(b) THEN Len(a) < Len(b)
    ELSE IF a = <<>> THEN FALSE
    ELSE IF a[1] # b[1] THEN a[1] < b[1]
    ELSE DigitsLess(Tail(a), Tail(b))

(***************************************************************************)
(* Values of the model: None stands for Python's None and SQL's NULL where *)
(* a string is expected.                                                   *)
(***************************************************************************)
None == "<None>"

Truthy(v) == v # None /\ v # ""

PwAdmin    == Text(<<"p", "a", "s", "s", "w", "o", "r", "d">>)
PwBernardo == Text(<<"o", "m", "g", "M", "P", "C">>)
PwAlice    == Text(<<"S", "t", "r", "0", "n", "g", "!", "P", "a", "s", "s", "w", "0", "r", "d">>)

Usernames == {"admin", "alice", ""}
Passwords == {PwAdmin, PwAlice}
\* bcrypt.gensalt draws a fresh salt for every hash; no handler reads the salt
\* other than verify_password, which takes it from the stored hash.
Salts     == {"$2b$12$salt"}
Secrets   == {"JBSWY3DPEHPK3PXP", "KRSXG5CTMVRXEZLU"}
Codes     == {"000000", "000001", "000002"}

NoteHello == Text(<<"h", "e", "l", "l", "o", " ", "m", "y", " ", "f", "r", "i", "e", "n", "d">>)
NoteLunch == Text(<<"i", " ", "w", "a", "n", "t", " ", "l", "u", "n", "c", "h", " ", "p", "l", "s">>)

SeedPublicId1 == <<1, 2, 3, 4, 5, 6, 7, 8, 9, 0>>
SeedPublicId2 == <<1, 2, 3, 4, 5, 6, 7, 8, 9, 1>>
RangeStart    == <<1, 0, 0, 0, 0, 0, 0, 0, 0, 0>>
RangeStop     == <<9, 9, 9, 9, 9, 9, 9, 9, 9, 9>>
RangeLast     == <<9, 9, 9, 9, 9, 9, 9, 9, 9, 8>>
BelowRange    == <<9, 9, 9, 9, 9, 9, 9, 9, 9>>

\* The integers the random generator is sampled at.
SamplePublicIds == {BelowRange, SeedPublicId1, RangeLast, RangeStop}

SeedTime1 == 0 - 2
SeedTime2 == 0 - 1

MAX_NOTE_LENGTH == 500

NoteInputs ==
    { <<>>,
      Rep(" ", 2),
      Rep("a", MAX_NOTE_LENGTH),
      Rep("a", MAX_NOTE_LENGTH + 1),
      Concat(Rep("a", MAX_NOTE_LENGTH), Rep(" ", 1)) }

NoteIdInputs ==
    { <<>>,
      Text(<<"1", "2", "3", "4", "5", "6", "7", "8", "9", "0">>),
      Text(<<" ", "1", "2", "3", "4", "5", "6", "7", "8", "9", "0", "\n">>),
      Text(<<"1", "2", "3", "4", "5", "6", "7", "8", "9">>),
      Text(<<"0", "9", "9", "9", "9", "9", "9", "9", "9", "9">>),
      Text(<<"1", "2", "U+0663", "4", "5", "6", "7", "8", "9", "0">>),
      Concat(Rep("9", 9), Rep("8", 1)),
      Rep("9", 10) }

(***************************************************************************)
(* Security functions.                                                     *)
(***************************************************************************)
\* Variant of validate_password with the minimum length of the other profile.
validate_password_min_8(password) ==
    IF TextLen(password) < 8
    THEN "Password must be at least 13 characters"
    ELSE IF ~re_search(UpperChars, password)
    THEN "Password must include at least one uppercase letter"
    ELSE IF ~re_search(LowerChars, password)
    THEN "Password must include at least one lowercase letter"
    ELSE IF ~re_search(AsciiDigits, password)
    THEN "Password must include at least one number"
    ELSE IF ~re_search(SpecialChars, password)
    THEN "Password must include at least one special character"
    ELSE None

validate_password(password) ==
    IF TextLen(password) < 13
    THEN "Password must be at least 13 characters"
    ELSE IF ~re_search(UpperChars, password)
    THEN "Password must include at least one uppercase letter"
    ELSE IF ~re_search(LowerChars, password)
    THEN "Password must include at least one lowercase letter"
    ELSE IF ~re_search(AsciiDigits, password)
    THEN "Password must include at least one number"
    ELSE IF ~re_search(SpecialChars, password)
    THEN "Password must include at least one special character"
    ELSE None

\* bcrypt: the hash carries its salt; the digest is determined by salt and password.
hashpw(password, salt) == [salt |-> salt, digest |-> <<salt, password>>]

\* salt is the value bcrypt.gensalt draws.
hash_password(password, salt) == hashpw(password, salt)

verify_password(hashed, password) == hashpw(password, hashed.salt) = hashed

SecretNum(secret) == IF secret = "JBSWY3DPEHPK3PXP" THEN 1 ELSE 2

\* pyotp.TOTP(secret).at(t): the code of the time step t, a function of secret and step.
totp_at(secret, t) ==
    LET k == (SecretNum(secret) * t + 1) % 3
    IN  IF k = 0 THEN "000000" ELSE IF k = 1 THEN "000001" ELSE "000002"

\* pyotp.TOTP(secret).verify(token): str(token) against the code of the current step.
totp_verify(secret, token, t) == token = totp_at(secret, t)

verify_otp_secret(otp, token, t) == totp_verify(otp, token, t)

(***************************************************************************)
(* Sessions: a session is a dictionary, a function from the keys it holds  *)
(* to their values.                                                        *)
(***************************************************************************)
EmptySession == <<>>

SessionSet(d, k, v) == (k :> v) @@ d

PendingKeys == {"pending_username", "pending_password", "pending_otp_secret"}

\* Variant of login_required that accepts any session that holds something.
login_required_any_session(d) == d # EmptySession

\* session.get('logged_in') of the decorator login_required and of index.
login_required(d) == "logged_in" \in DOMAIN d /\ d["logged_in"] = TRUE

\* The response of a handler: where it redirects or what it renders, with
\* the messages and the note rows it hands to the template.
Response(kind, error, passworderror, rows) ==
    [kind |-> kind, error |-> error, passworderror |-> passworderror, notes |-> rows]

\* What a handler does with a request: the tables and the client's session as
\* it leaves them, and its response.
Outcome(u, n, d, response) ==
    [users |-> u, notes |-> n, session |-> d, response |-> response]

(***************************************************************************)
(* Database.                                                               *)
(***************************************************************************)
UserRow(id, username, password, otpSecret) ==
    [id |-> id, username |-> username, password |-> password, otpSecret |-> otpSecret]

NoteRow(id, assocUser, dateWritten, note, publicID) ==
    [id |-> id, assocUser |-> assocUser, dateWritten |-> dateWritten,
     note |-> note, publicID |-> publicID]

\* INTEGER PRIMARY KEY AUTOINCREMENT of a table no row is ever deleted from.
NextId(table) == Len(table) + 1

init_db(salt1, salt2) ==
    /\ users = << UserRow(1, "admin", hash_password(PwAdmin, salt1), None),
                  UserRow(2, "bernardo", hash_password(PwBernardo, salt2), None) >>
    /\ notes = << NoteRow(1, 2, SeedTime1, NoteHello, SeedPublicId1),
                  NoteRow(2, 2, SeedTime2, NoteLunch, SeedPublicId2) >>

select_users_by_username(username) ==
    SelectSeq(users, LAMBDA u : u.username = username)

select_notes_by_user(table, userid) ==
    SelectSeq(table, LAMBDA n : n.assocUser = userid)

\* Variant of the publicID query without its WHERE clause.
select_notes_any(table, noteid) == table

\* publicID = ? with a text parameter: the column's INTEGER affinity turns a
\* text that is a decimal integer into that integer; any other text equals no integer.
select_notes_by_publicID(table, noteid) ==
    IF noteid # <<>> /\ \A i \in 1..Len(noteid) : noteid[i].ch \in AsciiDigits
    THEN LET value == Canonical([i \in 1..TextLen(noteid) |-> DigitValue[Chars(noteid)[i]]])
         IN  SelectSeq(table, LAMBDA n : n.publicID = value)
    ELSE <<>>

\* random.randrange(start, stop)
randrange(start, stop) ==
    {n \in SamplePublicIds : ~DigitsLess(n, start) /\ DigitsLess(n, stop)}

\* time.strftime('%Y-%m-%d %H:%M:%S')
strftime(t) == t

\* re.fullmatch(r'^\d{10}$', s)
fullmatch_10_digits(s) ==
    /\ TextLen(s) = 10
    /\ \A i \in 1..Len(s) : s[i].ch \in UnicodeDigits

(***************************************************************************)
(* Initial state: the database as init_db leaves it, and no session.       *)
(***************************************************************************)
Init ==
    /\ \E salt1, salt2 \in Salts : init_db(salt1, salt2)
    /\ session = [d \in {EmptySession} |-> NClients]
    /\ now = 0

(***************************************************************************)
(* Requests: the method and request.form, a dictionary like the session.   *)
(***************************************************************************)
Get(method) == [method |-> method, form |-> <<>>]

Post(form) == [method |-> "POST", form |-> form]

\* request.form.get(k, default)
form_get(form, k, default) == IF k \in DOMAIN form THEN form[k] ELSE default

NotesRequests ==
    {Get("GET"), Post(<<>>), Post([submit_button |-> "add note"]),
     Post([submit_button |-> "import note"])}
      \cup {Post([submit_button |-> "add note", noteinput |-> x]) : x \in NoteInputs}
      \cup {Post([submit_button |-> "import note", noteid |-> x]) : x \in NoteIdInputs}

LoginRequests ==
    {Get("GET")}
      \cup {Post([username |-> u, password |-> p, otp |-> o]) :
              u \in Usernames, p \in Passwords, o \in Codes}

RegisterRequests ==
    {Get("GET")}
      \cup {Post([username |-> u, password |-> p]) : u \in Usernames, p \in Passwords}

Verify2faRequests ==
    {Post(<<>>)} \cup {Post([otp_code |-> o]) : o \in Codes}

(***************************************************************************)
(* Route handlers.  For each handler, <handler>_outcomes is the set of     *)
(* outcomes the handler can produce for a request of the client holding    *)
(* session d in the current state (more than one where the handler draws   *)
(* a random value), and the action <handler> takes one of them.            *)
(***************************************************************************)
Unchanged(d, response) == Outcome(users, notes, d, response)

\* The sessions the clients hold.
Sessions == BagToSet(session)

\* The client that holds session d holds session e instead.
Replace(d, e) == (session (-) SetToBag({d})) (+) SetToBag({e})

Take(d, o) ==
    /\ Len(o.users) <= MaxUsers
    /\ Len(o.notes) <= MaxNotes
    /\ users' = o.users
    /\ notes' = o.notes
    /\ session' = Replace(d, o.session)
    /\ UNCHANGED now

index_outcomes(d) ==
    IF ~login_required(d)
    THEN {Unchanged(d, Response("render:index.html", "", "", <<>>))}
    ELSE {Unchanged(d, Response("redirect:notes", "", "", <<>>))}

index(d) == \E o \in index_outcomes(d) : Take(d, o)

\* Variant of the 'add note' branch without the length check.
notes_add_note_unchecked(d, table, form, t) ==
    LET note_input == strip(form_get(form, "noteinput", <<>>))
    IN  IF TextLen(note_input) = 0
        THEN {[table |-> table, importerror |-> "Note cannot be empty."]}
        ELSE IF "userid" \notin DOMAIN d
        THEN {[table |-> table, importerror |-> "An error occurred while saving the note."]}
        ELSE {[table |-> Append(table, NoteRow(NextId(table), d["userid"], strftime(t),
                                               note_input, publicID)),
               importerror |-> ""] : publicID \in randrange(RangeStart, RangeStop)}

\* Variant of the 'add note' branch that stores the field as submitted.
notes_add_note_unstripped(d, table, form, t) ==
    LET submitted == form_get(form, "noteinput", <<>>)
        note_input == strip(submitted)
    IN  IF TextLen(note_input) = 0
        THEN {[table |-> table, importerror |-> "Note cannot be empty."]}
        ELSE IF TextLen(note_input) > MAX_NOTE_LENGTH
        THEN {[table |-> table,
               importerror |-> "Note is too long. Max length is 500 characters."]}
        ELSE IF "userid" \notin DOMAIN d
        THEN {[table |-> table, importerror |-> "An error occurred while saving the note."]}
        ELSE {[table |-> Append(table, NoteRow(NextId(table), d["userid"], strftime(t),
                                               submitted, publicID)),
               importerror |-> ""] : publicID \in randrange(RangeStart, RangeStop)}

\* The 'add note' branch of notes: the notes tables it can leave (one for each
\* publicID the generator can draw) with the message.
notes_add_note(d, table, form, t) ==
    LET note_input == strip(form_get(form, "noteinput", <<>>))
    IN  IF TextLen(note_input) = 0
        THEN {[table |-> table, importerror |-> "Note cannot be empty."]}
        ELSE IF TextLen(note_input) > MAX_NOTE_LENGTH
        THEN {[table |-> table,
               importerror |-> "Note is too long. Max length is 500 characters."]}
        ELSE IF "userid" \notin DOMAIN d
        THEN {[table |-> table, importerror |-> "An error occurred while saving the note."]}
        ELSE {[table |-> Append(table, NoteRow(NextId(table), d["userid"], strftime(t),
                                               note_input, publicID)),
               importerror |-> ""] : publicID \in randrange(RangeStart, RangeStop)}

\* Variant of the import that leaves the copy with the owner of the found note.
notes_import_note_keeps_owner(d, table, form) ==
    LET noteid_input == strip(form_get(form, "noteid", <<>>))
        result == select_notes_by_publicID(table, noteid_input)
    IN  IF ~fullmatch_10_digits(noteid_input)
        THEN [table |-> table,
              importerror |-> "Invalid Note ID format. It must be a 10-digit number."]
        ELSE IF Len(result) > 0
        THEN [table |-> Append(table, NoteRow(NextId(table), result[1].assocUser,
                                              result[1].dateWritten, result[1].note,
                                              result[1].publicID)),
              importerror |-> "Note imported successfully!"]
        ELSE [table |-> table, importerror |-> "No such note with that ID!"]

\* Variant of the import that moves the found note to the importer.
notes_import_note_moves(d, table, form) ==
    LET noteid_input == strip(form_get(form, "noteid", <<>>))
        result == select_notes_by_publicID(table, noteid_input)
    IN  IF ~fullmatch_10_digits(noteid_input)
        THEN [table |-> table,
              importerror |-> "Invalid Note ID format. It must be a 10-digit number."]
        ELSE IF Len(result) > 0 /\ "userid" \in DOMAIN d
        THEN [table |-> [table EXCEPT ![result[1].id].assocUser = d["userid"]],
              importerror |-> "Note imported successfully!"]
        ELSE [table |-> table, importerror |-> "No such note with that ID!"]

\* The 'import note' branch of notes.
notes_import_note(d, table, form) ==
    LET noteid_input == strip(form_get(form, "noteid", <<>>))
        result == select_notes_by_publicID(table, noteid_input)
    IN  IF ~fullmatch_10_digits(noteid_input)
        THEN [table |-> table,
              importerror |-> "Invalid Note ID format. It must be a 10-digit number."]
        ELSE IF Len(result) > 0
        THEN IF TextLen(result[1].note) > MAX_NOTE_LENGTH
             THEN [table |-> table,
                   importerror |-> "Imported note is too long. Max length is 500 characters."]
             ELSE IF "userid" \notin DOMAIN d
             THEN [table |-> table, importerror |-> "An error occurred during note import."]
             ELSE [table |-> Append(table, NoteRow(NextId(table), d["userid"],
                                                   result[1].dateWritten, result[1].note,
                                                   result[1].publicID)),
                   importerror |-> "Note imported successfully!"]
        ELSE [table |-> table, importerror |-> "No such note with that ID!"]

\* Variant of the listing that reads the table as it was before the POST part.
notes_list_stale(d, table, importerror) ==
    IF "userid" \notin DOMAIN d
    THEN [notes |-> <<>>, importerror |-> "Could not retrieve notes due to a server error."]
    ELSE [notes |-> select_notes_by_user(notes, d["userid"]), importerror |-> importerror]

\* The listing that ends notes.
notes_list(d, table, importerror) ==
    IF "userid" \notin DOMAIN d
    THEN [notes |-> <<>>, importerror |-> "Could not retrieve notes due to a server error."]
    ELSE [notes |-> select_notes_by_user(table, d["userid"]), importerror |-> importerror]

\* The POST part of notes.
notes_post(d, table, request, t) ==
    LET submit_button == form_get(request.form, "submit_button", None)
    IN  IF request.method = "POST" /\ submit_button = "add note"
        THEN notes_add_note(d, table, request.form, t)
        ELSE IF request.method = "POST" /\ submit_button = "import note"
        THEN {notes_import_note(d, table, request.form)}
        ELSE {[table |-> table, importerror |-> ""]}

notes_outcomes(d, request) ==
    IF ~login_required(d)
    THEN {Unchanged(d, Response("redirect:login", "", "", <<>>))}
    ELSE { LET listed == notes_list(d, posted.table, posted.importerror)
           IN  Outcome(users, posted.table, d,
                       Response("render:notes.html", listed.importerror, "", listed.notes))
           : posted \in notes_post(d, notes, request, now) }

notes_route(d, request) == \E o \in notes_outcomes(d, request) : Take(d, o)

\* Variant of login that asks no code of a user without an OTP secret.
login_outcomes_optional_2fa(d, request) ==
    IF request.method # "POST"
    THEN {Unchanged(d, Response("render:login.html", "", "", <<>>))}
    ELSE LET username == request.form["username"]
             password == request.form["password"]
             otp == request.form["otp"]
             result == select_users_by_username(username)
         IN  IF Len(result) > 0 /\ verify_password(result[1].password, password)
             THEN LET otp_secret == result[1].otpSecret
                  IN  IF Truthy(otp_secret) /\ ~verify_otp_secret(otp_secret, otp, now)
                      THEN {Unchanged(d, Response("render:login.html",
                                "Invalid 2FA code.", "", <<>>))}
                      ELSE {Outcome(users, notes,
                                SessionSet(SessionSet(SessionSet(EmptySession,
                                    "logged_in", TRUE),
                                    "userid", result[1].id),
                                    "username", result[1].username),
                                Response("redirect:index", "", "", <<>>))}
             ELSE {Unchanged(d, Response("render:login.html",
                       "Wrong username or password!", "", <<>>))}

\* Variant of login that reads the latest row of the username.
login_outcomes_latest_row(d, request) ==
    IF request.method # "POST"
    THEN {Unchanged(d, Response("render:login.html", "", "", <<>>))}
    ELSE LET username == request.form["username"]
             password == request.form["password"]
             otp == request.form["otp"]
             result == select_users_by_username(username)
             last == Len(result)
         IN  IF Len(result) > 0 /\ verify_password(result[last].password, password)
             THEN LET otp_secret == result[last].otpSecret
                  IN  IF ~Truthy(otp_secret)
                      THEN {Unchanged(d, Response("render:login.html",
                                "2FA not configured for this account.", "", <<>>))}
                      ELSE IF ~verify_otp_secret(otp_secret, otp, now)
                      THEN {Unchanged(d, Response("render:login.html",
                                "Invalid 2FA code.", "", <<>>))}
                      ELSE {Outcome(users, notes,
                                SessionSet(SessionSet(SessionSet(EmptySession,
                                    "logged_in", TRUE),
                                    "userid", result[last].id),
                                    "username", result[last].username),
                                Response("redirect:index", "", "", <<>>))}
             ELSE {Unchanged(d, Response("render:login.html",
                       "Wrong username or password!", "", <<>>))}

login_outcomes(d, request) ==
    IF request.method # "POST"
    THEN {Unchanged(d, Response("render:login.html", "", "", <<>>))}
    ELSE LET username == request.form["username"]
             password == request.form["password"]
             otp == request.form["otp"]
             result == select_users_by_username(username)
         IN  IF Len(result) > 0 /\ verify_password(result[1].password, password)
             THEN LET otp_secret == result[1].otpSecret
                  IN  IF ~Truthy(otp_secret)
                      THEN {Unchanged(d, Response("render:login.html",
                                "2FA not configured for this account.", "", <<>>))}
                      ELSE IF ~verify_otp_secret(otp_secret, otp, now)
                      THEN {Unchanged(d, Response("render:login.html",
                                "Invalid 2FA code.", "", <<>>))}
                      ELSE {Outcome(users, notes,
                                SessionSet(SessionSet(SessionSet(EmptySession,
                                    "logged_in", TRUE),
                                    "userid", result[1].id),
                                    "username", result[1].username),
                                Response("redirect:index", "", "", <<>>))}
             ELSE {Unchanged(d, Response("render:login.html",
                       "Wrong username or password!", "", <<>>))}

login(d, request) == \E o \in login_outcomes(d, request) : Take(d, o)

\* One outcome for each salt bcrypt.gensalt and each secret pyotp.random_base32
\* can draw.
register_outcomes(d, request) ==
    IF request.method # "POST"
    THEN {Unchanged(d, Response("render:register.html", "", "", <<>>))}
    ELSE LET username == request.form["username"]
             password == request.form["password"]
             errormsg == validate_password(password)
             passworderror == IF Truthy(errormsg) THEN errormsg ELSE ""
             taken == Len(select_users_by_username(username)) > 0
             usererror == IF taken THEN "Please choose another username." ELSE ""
             errored == Truthy(errormsg) \/ taken
         IN  IF ~errored
             THEN {Outcome(users, notes,
                       SessionSet(SessionSet(SessionSet(d,
                           "pending_username", username),
                           "pending_password", hash_password(password, salt)),
                           "pending_otp_secret", otp_secret),
                       Response("render:register.html:show_qr", usererror, passworderror, <<>>))
                   : salt \in Salts, otp_secret \in Secrets}
             ELSE {Unchanged(d, Response("render:register.html", usererror,
                                         passworderror, <<>>))}

register(d, request) == \E o \in register_outcomes(d, request) : Take(d, o)

\* session.get(k) is truthy for the three pending keys: the key is there and
\* its value is not empty (a bcrypt hash is never empty).
pending_present(d) ==
    /\ "pending_otp_secret" \in DOMAIN d /\ Truthy(d["pending_otp_secret"])
    /\ "pending_username" \in DOMAIN d /\ Truthy(d["pending_username"])
    /\ "pending_password" \in DOMAIN d

\* Variant of verify_2fa that logs the new user in.
verify_2fa_outcomes_autologin(d, request) ==
    LET code == form_get(request.form, "otp_code", None)
    IN  IF ~pending_present(d)
        THEN {Unchanged(d, Response("redirect:register", "", "", <<>>))}
        ELSE IF totp_verify(d["pending_otp_secret"], code, now)
        THEN {Outcome(Append(users, UserRow(NextId(users), d["pending_username"],
                                            d["pending_password"],
                                            d["pending_otp_secret"])),
                      notes,
                      SessionSet(SessionSet(SessionSet(EmptySession,
                          "logged_in", TRUE),
                          "userid", NextId(users)),
                          "username", d["pending_username"]),
                      Response("redirect:index", "", "", <<>>))}
        ELSE {Unchanged(d, Response("render:register.html:show_qr",
                                    "Invalid 2FA code.", "", <<>>))}

\* Variant of verify_2fa that clears the session after a wrong code.
verify_2fa_outcomes_clears_on_failure(d, request) ==
    LET code == form_get(request.form, "otp_code", None)
    IN  IF ~pending_present(d)
        THEN {Unchanged(d, Response("redirect:register", "", "", <<>>))}
        ELSE IF totp_verify(d["pending_otp_secret"], code, now)
        THEN {Outcome(Append(users, UserRow(NextId(users), d["pending_username"],
                                            d["pending_password"],
                                            d["pending_otp_secret"])),
                      notes, EmptySession, Response("redirect:login", "", "", <<>>))}
        ELSE {Outcome(users, notes, EmptySession,
                      Response("render:register.html:show_qr", "Invalid 2FA code.", "", <<>>))}

\* Variant of verify_2fa that looks the username up again before the insert.
verify_2fa_outcomes_checks_username(d, request) ==
    LET code == form_get(request.form, "otp_code", None)
    IN  IF ~pending_present(d)
        THEN {Unchanged(d, Response("redirect:register", "", "", <<>>))}
        ELSE IF totp_verify(d["pending_otp_secret"], code, now)
        THEN IF Len(select_users_by_username(d["pending_username"])) > 0
             THEN {Unchanged(d, Response("redirect:register", "", "", <<>>))}
             ELSE {Outcome(Append(users, UserRow(NextId(users), d["pending_username"],
                                                 d["pending_password"],
                                                 d["pending_otp_secret"])),
                           notes, EmptySession, Response("redirect:login", "", "", <<>>))}
        ELSE {Unchanged(d, Response("render:register.html:show_qr",
                                    "Invalid 2FA code.", "", <<>>))}

verify_2fa_outcomes(d, request) ==
    LET code == form_get(request.form, "otp_code", None)
    IN  IF ~pending_present(d)
        THEN {Unchanged(d, Response("redirect:register", "", "", <<>>))}
        ELSE IF totp_verify(d["pending_otp_secret"], code, now)
        THEN {Outcome(Append(users, UserRow(NextId(users), d["pending_username"],
                                            d["pending_password"],
                                            d["pending_otp_secret"])),
                      notes, EmptySession, Response("redirect:login", "", "", <<>>))}
        ELSE {Unchanged(d, Response("render:register.html:show_qr",
                                    "Invalid 2FA code.", "", <<>>))}

verify_2fa(d, request) == \E o \in verify_2fa_outcomes(d, request) : Take(d, o)

logout_outcomes(d) ==
    IF ~login_required(d)
    THEN {Unchanged(d, Response("redirect:login", "", "", <<>>))}
    ELSE {Outcome(users, notes, EmptySession, Response("redirect:index", "", "", <<>>))}

logout(d) == \E o \in logout_outcomes(d) : Take(d, o)

\* The clock advances by one TOTP time step.
Tick ==
    /\ now < MaxTime
    /\ now' = now + 1
    /\ UNCHANGED <<users, notes, session>>

Next ==
    \/ \E d \in Sessions : index(d)
    \/ \E d \in Sessions, request \in NotesRequests : notes_route(d, request)
    \/ \E d \in Sessions, request \in LoginRequests : login(d, request)
    \/ \E d \in Sessions, request \in RegisterRequests : register(d, request)
    \/ \E d \in Sessions, request \in Verify2faRequests : verify_2fa(d, request)
    \/ \E d \in Sessions : logout(d)
    \/ Tick

Spec == Init /\ [][Next]_vars

(***************************************************************************)
(* Storage faults.  A database call of a handler (connect_db, an execute,  *)
(* a commit) can raise sqlite3.Error.  A fault names the call that raises  *)
(* in the request, NoFault if none does.  <handler>_outcomes_under is the  *)
(* handler with its exception handling: where the failing call is reached  *)
(* it gives what the except and finally clauses of the handler leave, and  *)
(* where the handler has none, the exception that leaves the handler;      *)
(* where the call is not reached, or with NoFault, it is the handler as    *)
(* above.  An outcome says in addition whether an exception left the       *)
(* handler (raised) and how many connections the request opened and did    *)
(* not close (open).  An insert that was not committed is rolled back when *)
(* its connection goes: it leaves no row.                                  *)
(***************************************************************************)
NoFault == "none"

AddFaults    == {"add:connect_db", "add:execute", "add:commit"}
ImportFaults == {"import:connect_db", "import:select", "import:insert", "import:commit"}
ListFaults   == {"list:connect_db", "list:select"}

NotesFaults    == {NoFault} \cup AddFaults \cup ImportFaults \cup ListFaults
LoginFaults    == {NoFault, "login:connect_db", "login:select"}
RegisterFaults == {NoFault, "register:connect_db", "register:select"}
Verify2faFaults ==
    {NoFault, "verify_2fa:connect_db", "verify_2fa:insert", "verify_2fa:commit"}

\* The outcome o of a handler that returned.
Returned(o) ==
    [users |-> o.users, notes |-> o.notes, session |-> o.session,
     response |-> o.response, raised |-> FALSE, open |-> 0]

\* An exception left the handler of the client with session d, open
\* connections of the request left unclosed: nothing was committed and the
\* session was not written.
Raised(d, open) ==
    [users |-> users, notes |-> notes, session |-> d,
     response |-> Response("raise:sqlite3.Error", "", "", <<>>),
     raised |-> TRUE, open |-> open]

\* The 'add note' branch: the try of lines 139-150 is entered with a stripped
\* body of 1..500 characters.
notes_add_note_under(d, table, form, t, fault) ==
    LET note_input == strip(form_get(form, "noteinput", <<>>))
    IN  IF /\ fault \in AddFaults
           /\ TextLen(note_input) > 0
           /\ TextLen(note_input) <= MAX_NOTE_LENGTH
        THEN {[table |-> table, importerror |-> "An error occurred while saving the note."]}
        ELSE notes_add_note(d, table, form, t)

\* The 'import note' branch: the try of lines 160-184 is entered with an id
\* that matches; the insert is reached if a note is found, and the commit
\* unless a call before it raised.
notes_import_note_under(d, table, form, fault) ==
    LET noteid_input == strip(form_get(form, "noteid", <<>>))
        result == select_notes_by_publicID(table, noteid_input)
        inserts == /\ Len(result) > 0
                   /\ TextLen(result[1].note) <= MAX_NOTE_LENGTH
                   /\ "userid" \in DOMAIN d
        reached == \/ fault \in {"import:connect_db", "import:select"}
                   \/ fault = "import:insert" /\ inserts
                   \/ fault = "import:commit"
                        /\ (Len(result) > 0 /\ TextLen(result[1].note) <= MAX_NOTE_LENGTH
                              => "userid" \in DOMAIN d)
    IN  IF fullmatch_10_digits(noteid_input) /\ reached
        THEN [table |-> table, importerror |-> "An error occurred during note import."]
        ELSE notes_import_note(d, table, form)

\* The listing that ends notes.
notes_list_under(d, table, importerror, fault) ==
    IF fault \in ListFaults
    THEN [notes |-> <<>>, importerror |-> "Could not retrieve notes due to a server error."]
    ELSE notes_list(d, table, importerror)

notes_post_under(d, table, request, t, fault) ==
    LET submit_button == form_get(request.form, "submit_button", None)
    IN  IF request.method = "POST" /\ submit_button = "add note"
        THEN notes_add_note_under(d, table, request.form, t, fault)
        ELSE IF request.method = "POST" /\ submit_button = "import note"
        THEN {notes_import_note_under(d, table, request.form, fault)}
        ELSE {[table |-> table, importerror |-> ""]}

\* Every try of notes closes its connection in its finally clause.
notes_outcomes_under(d, request, fault) ==
    IF ~login_required(d)
    THEN {Returned(Unchanged(d, Response("redirect:login", "", "", <<>>)))}
    ELSE { LET listed == notes_list_under(d, posted.table, posted.importerror, fault)
           IN  Returned(Outcome(users, posted.table, d,
                   Response("render:notes.html", listed.importerror, "", listed.notes)))
           : posted \in notes_post_under(d, notes, request, now, fault) }

notes_route_under(d, request, fault) ==
    \E o \in notes_outcomes_under(d, request, fault) : Take(d, o)

\* login has no try: an exception of connect_db (line 209) opens nothing, one
\* of the query (line 211) skips the close of line 213.
login_outcomes_under(d, request, fault) ==
    IF request.method = "POST" /\ fault = "login:connect_db"
    THEN {Raised(d, 0)}
    ELSE IF request.method = "POST" /\ fault = "login:select"
    THEN {Raised(d, 1)}
    ELSE {Returned(o) : o \in login_outcomes(d, request)}

login_under(d, request, fault) ==
    \E o \in login_outcomes_under(d, request, fault) : Take(d, o)

\* register has no try: an exception of connect_db (line 243) opens nothing,
\* one of the query (line 251) skips the closes of lines 267 and 271.
register_outcomes_under(d, request, fault) ==
    IF request.method = "POST" /\ fault = "register:connect_db"
    THEN {Raised(d, 0)}
    ELSE IF request.method = "POST" /\ fault = "register:select"
    THEN {Raised(d, 1)}
    ELSE {Returned(o) : o \in register_outcomes(d, request)}

register_under(d, request, fault) ==
    \E o \in register_outcomes_under(d, request, fault) : Take(d, o)

\* verify_2fa has no try: the database is reached with the pending fields
\* present and a code that verifies; an exception of connect_db (line 287)
\* opens nothing, one of the insert or the commit (lines 289-291) skips the
\* close of line 292 and session.clear().
verify_2fa_outcomes_under(d, request, fault) ==
    LET code == form_get(request.form, "otp_code", None)
        reached == pending_present(d) /\ totp_verify(d["pending_otp_secret"], code, now)
    IN  IF reached /\ fault = "verify_2fa:connect_db"
        THEN {Raised(d, 0)}
        ELSE IF reached /\ fault \in {"verify_2fa:insert", "verify_2fa:commit"}
        THEN {Raised(d, 1)}
        ELSE {Returned(o) : o \in verify_2fa_outcomes(d, request)}

verify_2fa_under(d, request, fault) ==
    \E o \in verify_2fa_outcomes_under(d, request, fault) : Take(d, o)

NextUnder ==
    \/ \E d \in Sessions : index(d)
    \/ \E d \in Sessions, request \in NotesRequests, fault \in NotesFaults :
          notes_route_under(d, request, fault)
    \/ \E d \in Sessions, request \in LoginRequests, fault \in LoginFaults :
          login_under(d, request, fault)
    \/ \E d \in Sessions, request \in RegisterRequests, fault \in RegisterFaults :
          register_under(d, request, fault)
    \/ \E d \in Sessions, request \in Verify2faRequests, fault \in Verify2faFaults :
          verify_2fa_under(d, request, fault)
    \/ \E d \in Sessions : logout(d)
    \/ Tick

\* The program with storage faults.
SpecUnderFaults == Init /\ [][NextUnder]_vars

(***************************************************************************)
(* The password policy on its own: registration with passwords that meet   *)
(* and miss each rule of validate_password, and its confirmation.          *)
(* "U+00C9" and "U+00E9" stand for the letters E and e with acute accent,  *)
(* an uppercase and a lowercase letter that are not ASCII.                 *)
(***************************************************************************)
PolicyPasswords ==
    { <<>>,
      PwAdmin,
      PwAlice,
      Text(<<"S", "t", "r", "0", "n", "g", "!", "P", "a", "s", "s", "w">>),
      Text(<<"S", "t", "r", "0", "n", "g", "!", "P", "a", "s", "s", "w", "0">>),
      Text(<<"s", "t", "r", "0", "n", "g", "!", "p", "a", "s", "s", "w", "0", "r", "d">>),
      Text(<<"S", "T", "R", "0", "N", "G", "!", "P", "A", "S", "S", "W", "0", "R", "D">>),
      Text(<<"S", "T", "R", "O", "N", "G", "!", "P", "A", "S", "S", "W", "O", "R", "D">>),
      Text(<<"S", "t", "r", "o", "n", "g", "!", "P", "a", "s", "s", "w", "o", "r", "d">>),
      Text(<<"S", "t", "r", "0", "n", "g", "P", "a", "s", "s", "w", "0", "r", "d", "X">>),
      Text(<<"S", "t", "r", "0", "n", "g", "-", "P", "a", "s", "s", "w", "0", "r", "d">>),
      Rep("a", 13),
      Rep("1", 13),
      Rep("!", 13),
      Text(<<"U+00C9", "t", "r", "0", "n", "g", "!", "p", "a", "s", "s", "w", "0", "r", "d">>),
      Text(<<"S", "T", "R", "0", "N", "G", "!", "P", "A", "S", "S", "W", "0", "R", "U+00E9">>),
      Text(<<"S", "t", "r", "o", "n", "g", "!", "P", "a", "s", "s", "w", "o", "r", "U+0663">>) }

PolicyRegisterRequests ==
    {Get("GET")}
      \cup {Post([username |-> u, password |-> p]) :
              u \in Usernames, p \in PolicyPasswords}

NextPolicy ==
    \/ \E d \in Sessions, request \in PolicyRegisterRequests : register(d, request)
    \/ \E d \in Sessions, request \in Verify2faRequests : verify_2fa(d, request)
    \/ Tick

SpecPolicy == Init /\ [][NextPolicy]_vars

(***************************************************************************)
(* The three session shapes of the specification.                          *)
(***************************************************************************)
IdentityKeys == {"logged_in", "userid", "username"}

Unauthenticated(d) == DOMAIN d \cap (IdentityKeys \cup PendingKeys) = {}

PendingRegistration(d) ==
    /\ PendingKeys \subseteq DOMAIN d
    /\ DOMAIN d \cap IdentityKeys = {}

Authenticated(d) ==
    /\ IdentityKeys \subseteq DOMAIN d
    /\ d["logged_in"] = TRUE
    /\ DOMAIN d \cap PendingKeys = {}

\* The user row a confirmed registration leaves: it has an OTP secret.
Registered(u) == Truthy(u.otpSecret)

(***************************************************************************)
(* C1: in every reachable state every client session has exactly one of    *)
(* the three shapes Unauthenticated, PendingRegistration, Authenticated;   *)
(* no session holds an authenticated identity and pending registration     *)
(* fields at the same time.                                                *)
(***************************************************************************)
C1_ExactlyOneShape ==
    \A d \in Sessions :
        /\ Unauthenticated(d) \/ PendingRegistration(d)
             \/ Authenticated(d)
        /\ ~("logged_in" \in DOMAIN d
               /\ DOMAIN d \cap PendingKeys # {})

(***************************************************************************)
(* C2: a session becomes Authenticated only by a login request whose       *)
(* username matches a stored user, whose password verifies against that    *)
(* user's hash and whose code verifies against that user's OTP secret, and *)
(* the session identity is that user's; and every user who registered and  *)
(* confirmed becomes Authenticated under their own username when they      *)
(* log in with their password and a code valid for their secret.           *)
(***************************************************************************)
\* In this step a client's session d is replaced by the session e.
Replaced(d, e) ==
    /\ CopiesIn(d, session') < CopiesIn(d, session)
    /\ CopiesIn(e, session') > CopiesIn(e, session)

BecomesAuthenticated(d, e) ==
    /\ Replaced(d, e)
    /\ login_required(e)
    /\ \/ ~login_required(d)
       \/ e["userid"] # d["userid"]
       \/ e["username"] # d["username"]

OnlyThroughLogin(d, e) ==
    \E request \in LoginRequests :
        /\ request.method = "POST"
        /\ login(d, request)
        /\ \E i \in 1..Len(users) :
              /\ users[i].username = request.form["username"]
              /\ verify_password(users[i].password, request.form["password"])
              /\ Registered(users[i])
              /\ request.form["otp"] = totp_at(users[i].otpSecret, now)
              /\ e["userid"] = users[i].id
              /\ e["username"] = users[i].username

RegisteredUserLogsIn(d, i) ==
    \A p \in Passwords :
        verify_password(users[i].password, p) =>
            \A o \in login_outcomes(d, Post([username |-> users[i].username,
                                             password |-> p,
                                             otp |-> totp_at(users[i].otpSecret, now)])) :
                /\ Authenticated(o.session)
                /\ o.session["username"] = users[i].username

C2_AuthenticatedThroughLogin ==
    [][ /\ \A d \in Sessions : \A e \in BagToSet(session') :
              BecomesAuthenticated(d, e) => OnlyThroughLogin(d, e)
        /\ \A d \in Sessions : \A i \in 1..Len(users) :
              Registered(users[i]) => RegisteredUserLogsIn(d, i) ]_vars

(***************************************************************************)
(* C3: a notes request (list, add note, import note) of a session that is  *)
(* Unauthenticated or PendingRegistration is redirected to login, inserts  *)
(* no note row and returns no note.                                        *)
(***************************************************************************)
C3_NotesRequireAuthenticated ==
    \A d \in Sessions : \A request \in NotesRequests :
        (Unauthenticated(d) \/ PendingRegistration(d)) =>
            \A o \in notes_outcomes(d, request) :
                /\ o.response.kind = "redirect:login"
                /\ o.response.notes = <<>>
                /\ o.notes = notes

C3_Witness ==
    \E d \in Sessions :
        /\ PendingRegistration(d)
        /\ \E request \in NotesRequests :
              /\ request.method = "POST"
              /\ "noteinput" \in DOMAIN request.form
              /\ TextLen(request.form["noteinput"]) = MAX_NOTE_LENGTH
              /\ \E o \in notes_outcomes(d, request) : o.response.kind = "redirect:login"

(***************************************************************************)
(* Vocabulary of the import claims.                                        *)
(***************************************************************************)
ImportRequests ==
    {r \in NotesRequests :
        r.method = "POST" /\ form_get(r.form, "submit_button", None) = "import note"}

\* The noteid field as the client submitted it.
SubmittedId(request) == form_get(request.form, "noteid", <<>>)

TenAsciiDigits(s) ==
    /\ TextLen(s) = 10
    /\ \A i \in 1..Len(s) : s[i].ch \in AsciiDigits

\* The integer a text of ten ASCII digits denotes.
IdValue(s) == Canonical([i \in 1..10 |-> DigitValue[Chars(s)[i]]])

Carriers(P) == {i \in 1..Len(notes) : notes[i].publicID = P}

First(S) == CHOOSE i \in S : \A j \in S : i <= j

(***************************************************************************)
(* C4: a successful import by user A of a public_id carried by a note of   *)
(* another user B appends exactly one row, owned by A, whose written_at,   *)
(* body and public_id are those of the found note (the first stored note   *)
(* with that public_id), and leaves every existing row, hence every other  *)
(* user's note list, unchanged.                                            *)
(***************************************************************************)
C4_ImportCopiesUnderImporter ==
    \A d \in Sessions : \A request \in ImportRequests :
        \A o \in notes_outcomes(d, request) :
            LET A == d["userid"]
                P == IdValue(strip(SubmittedId(request)))
                found == notes[First(Carriers(P))]
            IN  ( /\ o.response.error = "Note imported successfully!"
                  /\ \E i \in Carriers(P) : notes[i].assocUser # A )
                => /\ o.notes = Append(notes, [id |-> Len(notes) + 1,
                                               assocUser |-> A,
                                               dateWritten |-> found.dateWritten,
                                               note |-> found.note,
                                               publicID |-> found.publicID])
                   /\ o.users = users
                   /\ \A B \in 1..Len(users) :
                         B # A => select_notes_by_user(o.notes, B)
                                    = select_notes_by_user(notes, B)

C4_Witness ==
    \E i, j \in 1..Len(notes) :
        /\ j < i
        /\ notes[j].assocUser = 2
        /\ notes[i].assocUser # 2
        /\ notes[i].dateWritten = notes[j].dateWritten
        /\ notes[i].note = notes[j].note
        /\ notes[i].publicID = notes[j].publicID

(***************************************************************************)
(* C5: every note row that is created has as owner the user id of the      *)
(* session whose notes request created it, and no step changes the owner   *)
(* of an existing row or removes one.                                      *)
(***************************************************************************)
C5_OwnerSetAtCreationNeverChanged ==
    [][ /\ Len(notes') >= Len(notes)
        /\ \A i \in 1..Len(notes) :
              /\ notes'[i].id = notes[i].id
              /\ notes'[i].assocUser = notes[i].assocUser
        /\ \A i \in (Len(notes) + 1)..Len(notes') :
              \E d \in Sessions : \E request \in NotesRequests :
                  /\ notes_route(d, request)
                  /\ Authenticated(d) \/ login_required(d)
                  /\ notes'[i].assocUser = d["userid"] ]_vars

C5_Witness ==
    \E i \in 1..Len(notes) :
        /\ notes[i].dateWritten >= 0
        /\ notes[i].assocUser > 2
        /\ \E d \in Sessions : Authenticated(d)
                                /\ d["userid"] = notes[i].assocUser

(***************************************************************************)
(* C6: when verify_2fa is called in a session holding the three pending    *)
(* fields and the code verifies against the pending OTP secret, exactly    *)
(* one user record with the pending username, hash and secret is appended  *)
(* and the session ends Unauthenticated.                                   *)
(***************************************************************************)
ConfirmsRegistration(d, o) ==
    /\ o.users = Append(users, [id |-> Len(users) + 1,
                                username |-> d["pending_username"],
                                password |-> d["pending_password"],
                                otpSecret |-> d["pending_otp_secret"]])
    /\ o.notes = notes
    /\ Unauthenticated(o.session)
    /\ o.session = EmptySession

CodeVerifies(d, request) ==
    /\ "otp_code" \in DOMAIN request.form
    /\ request.form["otp_code"] = totp_at(d["pending_otp_secret"], now)

\* The claim as stated: any session holding the three fields.
C6_ConfirmAppendsUser_AsStated ==
    \A d \in Sessions : \A request \in Verify2faRequests :
        (PendingKeys \subseteq DOMAIN d /\ CodeVerifies(d, request)) =>
            \A o \in verify_2fa_outcomes(d, request) : ConfirmsRegistration(d, o)

\* The claim as amended: the pending username is not empty.
C6_ConfirmAppendsUser ==
    \A d \in Sessions : \A request \in Verify2faRequests :
        ( /\ PendingKeys \subseteq DOMAIN d
          /\ d["pending_username"] # ""
          /\ CodeVerifies(d, request) ) =>
            \A o \in verify_2fa_outcomes(d, request) : ConfirmsRegistration(d, o)

C6_Witness ==
    /\ Len(users) > 2
    /\ Registered(users[Len(users)])
    /\ \E d \in Sessions : Unauthenticated(d)
    /\ \E d \in Sessions : PendingRegistration(d)
                            /\ d["pending_username"] # ""

(***************************************************************************)
(* C7: a verify_2fa request that does not succeed, because the session     *)
(* lacks a pending field or because the code does not verify, inserts no   *)
(* user, leaves the session unchanged and answers without raising; after a *)
(* wrong code the session is still PendingRegistration with the same       *)
(* username, hash and secret, and a correct code for that secret confirms. *)
(***************************************************************************)
LacksPending(d) == ~(PendingKeys \subseteq DOMAIN d)

WrongCode(d, request) ==
    /\ PendingKeys \subseteq DOMAIN d
    /\ ~CodeVerifies(d, request)

CorrectCode(d) == Post([otp_code |-> totp_at(d["pending_otp_secret"], now)])

FailsQuietly(d, request) ==
    /\ verify_2fa_outcomes(d, request) # {}
    /\ \A o \in verify_2fa_outcomes(d, request) :
          /\ o.users = users
          /\ o.notes = notes
          /\ o.session = d
          /\ o.response.kind \in {"redirect:register", "render:register.html:show_qr"}

StillConfirms(d) ==
    \A o \in verify_2fa_outcomes(d, CorrectCode(d)) : ConfirmsRegistration(d, o)

\* The claim as stated: after any wrong code a correct one confirms.
C7_FailedConfirmKeepsPending_AsStated ==
    \A d \in Sessions : \A request \in Verify2faRequests :
        /\ (LacksPending(d) \/ WrongCode(d, request)) => FailsQuietly(d, request)
        /\ (WrongCode(d, request) /\ PendingRegistration(d)) => StillConfirms(d)

\* The claim as amended: a correct code confirms if the pending username is
\* not empty.
C7_FailedConfirmKeepsPending ==
    \A d \in Sessions : \A request \in Verify2faRequests :
        /\ (LacksPending(d) \/ WrongCode(d, request)) => FailsQuietly(d, request)
        /\ ( /\ WrongCode(d, request)
             /\ PendingRegistration(d)
             /\ d["pending_username"] # "" ) => StillConfirms(d)

C7_Witness ==
    \E d \in Sessions :
        /\ PendingRegistration(d)
        /\ d["pending_username"] # ""
        /\ now > 0
        /\ LET expired == totp_at(d["pending_otp_secret"], now - 1)
           IN  /\ expired # totp_at(d["pending_otp_secret"], now)
               /\ \E o \in verify_2fa_outcomes(d, Post([otp_code |-> expired])) :
                     o.response.error = "Invalid 2FA code."

(***************************************************************************)
(* C8: a logout request in any session state leaves the session            *)
(* Unauthenticated, all session fields discarded, pending registration     *)
(* fields included.                                                        *)
(***************************************************************************)
C8_LogoutClearsSession ==
    \A d \in Sessions : \A o \in logout_outcomes(d) :
        /\ Unauthenticated(o.session)
        /\ o.session = EmptySession

(***************************************************************************)
(* C9: a registration submit stores pending fields only in a session that  *)
(* is Unauthenticated or PendingRegistration, whose pending fields are     *)
(* then all overwritten; in an Authenticated session it stores none.       *)
(***************************************************************************)
C9_RegisterOnlyWhenNotAuthenticated ==
    \A d \in Sessions : \A request \in RegisterRequests :
        \A o \in register_outcomes(d, request) :
            /\ (o.session # d /\ DOMAIN o.session \cap PendingKeys # {})
                 => /\ Unauthenticated(d) \/ PendingRegistration(d)
                    /\ PendingRegistration(o.session)
            /\ Authenticated(d) => DOMAIN o.session \cap PendingKeys = {}

(***************************************************************************)
(* C10: import note inserts a row only if the submitted id is exactly ten  *)
(* ASCII digits and some stored note, of any owner, has that public_id;    *)
(* otherwise the request is rejected and the notes table is unchanged.     *)
(***************************************************************************)
ImportRejected(d, o) ==
    /\ o.notes = notes
    /\ o.response.error # "Note imported successfully!"
    /\ login_required(d) =>
          o.response.error \in {"Invalid Note ID format. It must be a 10-digit number.",
                                "No such note with that ID!"}

ImportOnlyIfMatch(d, request, id) ==
    LET matches == TenAsciiDigits(id) /\ Carriers(IdValue(id)) # {}
    IN  \A o \in notes_outcomes(d, request) :
            /\ o.notes # notes => matches
            /\ ~matches => ImportRejected(d, o)

\* The claim as stated: the id as submitted.
C10_ImportOnlyWellFormedMatch_AsStated ==
    \A d \in Sessions : \A request \in ImportRequests :
        ImportOnlyIfMatch(d, request, SubmittedId(request))

\* The claim as amended: the id with leading and trailing whitespace removed.
C10_ImportOnlyWellFormedMatch ==
    \A d \in Sessions : \A request \in ImportRequests :
        ImportOnlyIfMatch(d, request, strip(SubmittedId(request)))

C10_Witness ==
    /\ Len(notes) > 2
    /\ \E d \in Sessions : \E request \in ImportRequests :
          /\ login_required(d)
          /\ SubmittedId(request) # strip(SubmittedId(request))
          /\ \E o \in notes_outcomes(d, request) :
                o.response.error = "Note imported successfully!"
    /\ \E d \in Sessions : \E request \in ImportRequests :
          /\ login_required(d)
          /\ \E o \in notes_outcomes(d, request) :
                o.response.error = "No such note with that ID!"

(***************************************************************************)
(* Vocabulary of the add note claims.                                      *)
(***************************************************************************)
AddRequests ==
    {r \in NotesRequests :
        r.method = "POST" /\ form_get(r.form, "submit_button", None) = "add note"}

\* The noteinput field as the client submitted it.
SubmittedBody(request) == form_get(request.form, "noteinput", <<>>)

AddRejected(o) ==
    /\ o.notes = notes
    /\ o.users = users
    /\ o.response.error \in {"Note cannot be empty.",
                             "Note is too long. Max length is 500 characters."}

AddRejectsBadBody(d, request, body) ==
    (TextLen(body) = 0 \/ TextLen(body) > MAX_NOTE_LENGTH) =>
        \A o \in notes_outcomes(d, request) : AddRejected(o)

(***************************************************************************)
(* C11: add note with an empty body or with a body longer than 500         *)
(* characters is rejected with a validation message and inserts no row;    *)
(* the notes store is unchanged.                                           *)
(***************************************************************************)
\* The claim as stated: the body as submitted.
C11_AddRejectsEmptyOrLong_AsStated ==
    \A d \in Sessions : \A request \in AddRequests :
        login_required(d) => AddRejectsBadBody(d, request, SubmittedBody(request))

\* The claim as amended: the body with leading and trailing whitespace removed.
C11_AddRejectsEmptyOrLong ==
    \A d \in Sessions : \A request \in AddRequests :
        login_required(d) => AddRejectsBadBody(d, request, strip(SubmittedBody(request)))

C11_Witness ==
    \E d \in Sessions :
        /\ Authenticated(d)
        /\ \E request \in AddRequests :
              /\ TextLen(strip(SubmittedBody(request))) = MAX_NOTE_LENGTH + 1
              /\ \E o \in notes_outcomes(d, request) :
                    o.response.error = "Note is too long. Max length is 500 characters."
        /\ \E request \in AddRequests :
              /\ SubmittedBody(request) # <<>>
              /\ \E o \in notes_outcomes(d, request) :
                    o.response.error = "Note cannot be empty."

(***************************************************************************)
(* C12: in every reachable state every note of the store has a non-empty   *)
(* body of at most 500 characters, whatever add note and import note       *)
(* requests were made since the seeded store.                              *)
(***************************************************************************)
C12_StoredBodiesWithinLimit ==
    \A i \in 1..Len(notes) :
        /\ TextLen(notes[i].note) > 0
        /\ TextLen(notes[i].note) <= MAX_NOTE_LENGTH

\* The store holds an added note of the maximal length and a copy of it, and
\* a further import of that public id is accepted.
C12_Witness ==
    \E i, j \in 1..Len(notes) :
        /\ i < j
        /\ TextLen(notes[i].note) = MAX_NOTE_LENGTH
        /\ notes[i].dateWritten >= 0
        /\ notes[j].note = notes[i].note
        /\ notes[j].publicID = notes[i].publicID
        /\ \E d \in Sessions : \E request \in NotesRequests :
              /\ login_required(d)
              /\ select_notes_by_publicID(notes, strip(form_get(request.form, "noteid", <<>>)))
                   # <<>>
              /\ \E o \in notes_outcomes(d, request) :
                    /\ o.response.error = "Note imported successfully!"
                    /\ o.notes[Len(o.notes)].note = notes[i].note

(***************************************************************************)
(* C13: listing notes in an authenticated session returns exactly the      *)
(* stored notes owned by the session's user id, all of them and no other   *)
(* user's, in insertion order, a note added or imported earlier in the     *)
(* same request included.                                                  *)
(***************************************************************************)
\* The rows of the table owned by userid, in the order of the table.
RECURSIVE OwnedRows(_, _)
OwnedRows(table, userid) ==
    IF table = <<>> THEN <<>>
    ELSE IF table[1].assocUser = userid
         THEN <<table[1]>> \o OwnedRows(Tail(table), userid)
         ELSE OwnedRows(Tail(table), userid)

C13_ListReturnsOwnNotes ==
    \A d \in Sessions : \A request \in NotesRequests :
        login_required(d) =>
            \A o \in notes_outcomes(d, request) :
                o.response.notes = OwnedRows(o.notes, d["userid"])

\* A session whose user owns a note, while another user owns notes too, adds a
\* note and is shown it after the notes it had.
C13_Witness ==
    \E d \in Sessions :
        /\ Authenticated(d)
        /\ OwnedRows(notes, d["userid"]) # <<>>
        /\ Len(OwnedRows(notes, d["userid"])) < Len(notes)
        /\ \E request \in AddRequests : \E o \in notes_outcomes(d, request) :
              /\ Len(o.notes) = Len(notes) + 1
              /\ Len(o.response.notes) = Len(OwnedRows(notes, d["userid"])) + 1
              /\ o.response.notes[Len(o.response.notes)] = o.notes[Len(o.notes)]

(***************************************************************************)
(* C14: username uniqueness is enforced only by the check at registration  *)
(* submit, which looks at the stored users alone, and the confirm inserts  *)
(* without looking: two sessions that both submit the same unused username *)
(* before either confirms both confirm, and two user records share one     *)
(* username.                                                               *)
(***************************************************************************)
UsernameStored(username) == \E i \in 1..Len(users) : users[i].username = username

\* The submit is refused for a stored username, and for an unused one with a
\* valid password it stores the pending fields, whatever other sessions hold.
SubmitChecksStoredUsersOnly(d, request) ==
    \A o \in register_outcomes(d, request) :
        IF UsernameStored(request.form["username"])
        THEN /\ o.session = d
             /\ o.response.error = "Please choose another username."
        ELSE validate_password(request.form["password"]) = None
               => /\ PendingKeys \subseteq DOMAIN o.session
                  /\ o.session["pending_username"] = request.form["username"]

\* The confirm appends the pending user although the username is stored by now.
ConfirmInsertsUnchecked(d, request) ==
    (pending_present(d) /\ CodeVerifies(d, request)) =>
        \A o \in verify_2fa_outcomes(d, request) :
            /\ Len(o.users) = Len(users) + 1
            /\ o.users[Len(o.users)].username = d["pending_username"]

C14_UniquenessOnlyAtSubmit ==
    \A d \in Sessions :
        /\ \A request \in RegisterRequests :
              request.method = "POST" => SubmitChecksStoredUsersOnly(d, request)
        /\ \A request \in Verify2faRequests : ConfirmInsertsUnchecked(d, request)

\* Two confirmed user records share a username.
C14_Witness ==
    \E i, j \in 1..Len(users) :
        /\ i < j
        /\ users[i].username = users[j].username
        /\ Registered(users[i])
        /\ Registered(users[j])

(***************************************************************************)
(* C15: every handler that opens a store connection (notes, login,         *)
(* register, verify_2fa) closes it on every exit path, success, rejection  *)
(* or storage fault: when a request ends, no connection it opened is open. *)
(***************************************************************************)
C15_ConnectionsClosedOnEveryPath ==
    \A d \in Sessions :
        /\ \A request \in NotesRequests : \A fault \in NotesFaults :
              \A o \in notes_outcomes_under(d, request, fault) : o.open = 0
        /\ \A request \in LoginRequests : \A fault \in LoginFaults :
              \A o \in login_outcomes_under(d, request, fault) : o.open = 0
        /\ \A request \in RegisterRequests : \A fault \in RegisterFaults :
              \A o \in register_outcomes_under(d, request, fault) : o.open = 0
        /\ \A request \in Verify2faRequests : \A fault \in Verify2faFaults :
              \A o \in verify_2fa_outcomes_under(d, request, fault) : o.open = 0

(***************************************************************************)
(* C16: a storage fault during add note, import note, list notes, login,   *)
(* registration submit or registration confirm is recovered in the         *)
(* handler: the request ends with a generic error message, not with an     *)
(* exception, and the store holds no partial row.                          *)
(***************************************************************************)
GenericErrors ==
    {"An error occurred while saving the note.",
     "An error occurred during note import.",
     "Could not retrieve notes due to a server error."}

\* o is the outcome under a fault, free the outcomes of the request without
\* one: the request returned; if the fault changed its course it names a
\* generic error; and each table is as it was or as the request leaves it
\* without a fault.
FaultRecovered(o, free) ==
    /\ ~o.raised
    /\ o \in {Returned(x) : x \in free} \/ o.response.error \in GenericErrors
    /\ o.users \in {users} \cup {x.users : x \in free}
    /\ o.notes \in {notes} \cup {x.notes : x \in free}

C16_StorageFaultsRecovered ==
    \A d \in Sessions :
        /\ \A request \in NotesRequests : \A fault \in NotesFaults :
              \A o \in notes_outcomes_under(d, request, fault) :
                  FaultRecovered(o, notes_outcomes(d, request))
        /\ \A request \in LoginRequests : \A fault \in LoginFaults :
              \A o \in login_outcomes_under(d, request, fault) :
                  FaultRecovered(o, login_outcomes(d, request))
        /\ \A request \in RegisterRequests : \A fault \in RegisterFaults :
              \A o \in register_outcomes_under(d, request, fault) :
                  FaultRecovered(o, register_outcomes(d, request))
        /\ \A request \in Verify2faRequests : \A fault \in Verify2faFaults :
              \A o \in verify_2fa_outcomes_under(d, request, fault) :
                  FaultRecovered(o, verify_2fa_outcomes(d, request))

(***************************************************************************)
(* C17: validate_password returns no violation exactly when the password   *)
(* has at least 13 characters and contains an uppercase letter, a          *)
(* lowercase letter, a digit and a character of the fixed special set;     *)
(* otherwise it returns the message of the first failing rule in the order *)
(* length, uppercase, lowercase, digit, special.  A registration submit    *)
(* stores pending fields only for a password with no violation.            *)
(***************************************************************************)
MinLength == 13

Contains(password, class) ==
    \E i \in 1..Len(Chars(password)) : Chars(password)[i] \in class

\* The message of the first rule the password fails, the rules reading
\* "uppercase letter", "lowercase letter" and "digit" as the given classes.
FirstViolation(password, upper, lower, digits) ==
    CASE Len(Chars(password)) < MinLength
           -> "Password must be at least 13 characters"
      [] Len(Chars(password)) >= MinLength /\ ~Contains(password, upper)
           -> "Password must include at least one uppercase letter"
      [] OTHER ->
           IF ~Contains(password, lower)
           THEN "Password must include at least one lowercase letter"
           ELSE IF ~Contains(password, digits)
           THEN "Password must include at least one number"
           ELSE IF ~Contains(password, SpecialChars)
           THEN "Password must include at least one special character"
           ELSE None

UppercaseLetters == UpperChars \cup {"U+00C9"}
LowercaseLetters == LowerChars \cup {"U+00E9"}

\* A submit that stored pending fields.
StoredPending(d, o) == o.session # d /\ DOMAIN o.session \cap PendingKeys # {}

PolicyHolds(upper, lower, digits) ==
    /\ \A password \in PolicyPasswords :
          validate_password(password) = FirstViolation(password, upper, lower, digits)
    /\ \A d \in Sessions : \A request \in PolicyRegisterRequests :
          request.method = "POST" =>
              \A o \in register_outcomes(d, request) :
                  StoredPending(d, o) =>
                      FirstViolation(request.form["password"], upper, lower, digits) = None

\* The claim as stated: any uppercase letter, lowercase letter and digit.
C17_ValidatePasswordRules_AsStated ==
    PolicyHolds(UppercaseLetters, LowercaseLetters, UnicodeDigits)

\* The claim as amended: the ASCII letters A-Z and a-z and the ASCII digits.
C17_ValidatePasswordRules ==
    PolicyHolds(UpperChars, LowerChars, AsciiDigits)

\* A registration with a password of exactly 13 characters is pending, and a
\* submit in that session with a password that lacks only the special
\* character is refused with that message.
C17_Witness ==
    \E d \in Sessions :
        /\ PendingRegistration(d)
        /\ \E password \in PolicyPasswords :
              /\ Len(Chars(password)) = MinLength
              /\ verify_password(d["pending_password"], password)
        /\ \E request \in PolicyRegisterRequests :
              /\ request.method = "POST"
              /\ \E o \in register_outcomes(d, request) :
                    /\ o.session = d
                    /\ o.response.passworderror
                         = "Password must include at least one special character"

(***************************************************************************)
(* C18: the public_id an accepted add note assigns is drawn from the       *)
(* closed range [1000000000, 9999999999]: never outside it, every value of *)
(* it possible, both endpoints included; it is not checked against the     *)
(* stored public_ids, so two notes may receive the same one.               *)
(***************************************************************************)
InClosedRange(id) == ~DigitsLess(id, RangeStart) /\ ~DigitsLess(RangeStop, id)

\* The public_ids the accepted outcomes of the request assign.
Drawn(d, request) ==
    {o.notes[Len(o.notes)].publicID :
        o \in {x \in notes_outcomes(d, request) : Len(x.notes) = Len(notes) + 1}}

C18_PublicIdFromClosedRange ==
    \A d \in Sessions : \A request \in AddRequests :
        (login_required(d) /\ Drawn(d, request) # {}) =>
            /\ \A id \in Drawn(d, request) : InClosedRange(id)
            /\ \A id \in SamplePublicIds : InClosedRange(id) => id \in Drawn(d, request)
            /\ \A i \in 1..Len(notes) :
                  (InClosedRange(notes[i].publicID) /\ notes[i].publicID \in SamplePublicIds)
                      => notes[i].publicID \in Drawn(d, request)

(***************************************************************************)
(* C19: a user record whose OTP secret is null (the seeded users admin and *)
(* bernardo, the only records created without a secret) never becomes the  *)
(* authenticated identity of a session: for every password and code, login *)
(* for such a user leaves the session as it was, and no operation sets or  *)
(* changes that user's record.                                             *)
(***************************************************************************)
NullSecretUsers == {i \in 1..Len(users) : users[i].otpSecret = None}

\* Logins for the seeded usernames, with their passwords and others.
SeededLoginRequests ==
    {Post([username |-> u, password |-> p, otp |-> o]) :
        u \in {"admin", "bernardo"}, p \in {PwAdmin, PwBernardo, PwAlice},
        o \in Codes \cup {""}}

\* Every outcome any handler can produce in the session d.
AllOutcomes(d) ==
    UNION { index_outcomes(d), logout_outcomes(d),
            UNION {notes_outcomes(d, request) : request \in NotesRequests},
            UNION {login_outcomes(d, request) :
                      request \in LoginRequests \cup SeededLoginRequests},
            UNION {register_outcomes(d, request) : request \in RegisterRequests},
            UNION {verify_2fa_outcomes(d, request) : request \in Verify2faRequests} }

C19_NullSecretNeverAuthenticated ==
    /\ NullSecretUsers = {1, 2}
    /\ users[1].username = "admin" /\ users[2].username = "bernardo"
    /\ \A d \in Sessions :
          /\ "userid" \in DOMAIN d => d["userid"] \notin NullSecretUsers
          /\ \A request \in SeededLoginRequests :
                \A o \in login_outcomes(d, request) :
                    /\ o.session = d
                    /\ o.response.kind = "render:login.html"
          /\ \A o \in AllOutcomes(d) :
                /\ \A i \in NullSecretUsers : o.users[i] = users[i]
                /\ "userid" \in DOMAIN o.session
                     => o.session["userid"] \notin NullSecretUsers

\* While another user is authenticated, admin's own password gets the answer
\* that 2FA is not configured.
C19_Witness ==
    /\ \E d \in Sessions : Authenticated(d)
    /\ \E d \in Sessions :
          /\ ~login_required(d)
          /\ \E request \in LoginRequests :
                /\ request.method = "POST"
                /\ \E o \in login_outcomes(d, request) :
                      /\ o.response.error = "2FA not configured for this account."
                      /\ o.session = d

(***************************************************************************)
(* C20: when several user records share a username, login verifies the     *)
(* password and the code against the earliest of them only: a successful   *)
(* login under that username has the earliest record's user id, and the    *)
(* credentials of a later record authenticate only if they verify against  *)
(* the earliest record's hash and secret.                                  *)
(***************************************************************************)
RowsNamed(username) == {i \in 1..Len(users) : users[i].username = username}

Earliest(username) == First(RowsNamed(username))

LoginSucceeded(d, o) ==
    o.response.kind = "redirect:index" \/ o.session # d

C20_LoginUsesEarliestRecord ==
    \A d \in Sessions : \A request \in LoginRequests :
        request.method = "POST" =>
            \A o \in login_outcomes(d, request) :
                LoginSucceeded(d, o) =>
                    /\ RowsNamed(request.form["username"]) # {}
                    /\ LET e == users[Earliest(request.form["username"])]
                       IN  /\ verify_password(e.password, request.form["password"])
                           /\ request.form["otp"] = totp_at(e.otpSecret, now)
                           /\ Authenticated(o.session)
                           /\ o.session["userid"] = e.id
                           /\ o.session["username"] = e.username

\* Two records share a username, and at a time when their codes differ the
\* code of the later one is refused while that of the earlier one logs in as
\* the earlier one.
C20_Witness ==
    \E i, j \in 1..Len(users) :
        /\ i < j
        /\ users[i].username = users[j].username
        /\ i = Earliest(users[i].username)
        /\ Registered(users[i]) /\ Registered(users[j])
        /\ totp_at(users[i].otpSecret, now) # totp_at(users[j].otpSecret, now)
        /\ \E d \in Sessions : \E p \in Passwords :
              /\ verify_password(users[j].password, p)
              /\ \E o \in login_outcomes(d, Post([username |-> users[j].username,
                                                  password |-> p,
                                                  otp |-> totp_at(users[j].otpSecret, now)])) :
                    o.response.error = "Invalid 2FA code."
              /\ \E o \in login_outcomes(d, Post([username |-> users[i].username,
                                                  password |-> p,
                                                  otp |-> totp_at(users[i].otpSecret, now)])) :
                    /\ Authenticated(o.session)
                    /\ o.session["userid"] = users[i].id

====
